---- MODULE Spec2Model ----
(***************************************************************************)
(* The toast lifecycle engine of ng-toastly (ToastService), the container  *)
(* and item components that forward pointer events to it, and the timers   *)
(* the engine schedules with setTimeout; and the animation orchestrator    *)
(* (AnimationService) that runs a toast element's enter and leave          *)
(* animation.                                                              *)
(*                                                                         *)
(* An optional value (a field that may be undefined) is a set with at most *)
(* one element: {} is undefined, {v} is the value v.                       *)
(***************************************************************************)
EXTENDS Integers, Sequences, FiniteSets, TLC

VARIABLES
    globalConfig,    \* ToastService.globalConfig (merged once, read-only)
    containers,      \* the mounted <toastly-container>s: each one's position input
    toastIdCounter,  \* ToastService.toastIdCounter
    toasts,          \* ToastService.toastsSignal: the ordered collection
    activeTimers,    \* ToastService.activeTimers: toast id -> timer handle
    pending,         \* the host's timeouts that have neither fired nor been cleared
    hovered,         \* the toast element the pointer is over (NoId: none)
    destroyed,       \* the service's DestroyRef has run its onDestroy callbacks
    lastOp,          \* history: the last operation and its outcome
    issued,          \* history: every id a show call has returned
    showCount,       \* history: number of show calls that returned an id
    removedCount,    \* history: removals by dismiss(id) or timer expiry that removed a toast
    clearedCount,    \* history: toasts removed by dismissAll()
    fired,           \* history: the ids whose auto-dismiss callback has run
    animation        \* AnimationService.prefersReducedMotion, and one element's run

vars == <<globalConfig, containers, toastIdCounter, toasts, activeTimers, pending,
          hovered, destroyed, lastOp, issued, showCount, removedCount, clearedCount,
          fired, animation>>

----------------------------------------------------------------------------
(* Bounds of the model *)

\* show calls that may succeed in one behaviour
MaxShows == 2
\* timeouts that may be pending at once
MaxPending == 2
\* Date.now() returns a value of 0..MaxDateNow
MaxDateNow == 0

----------------------------------------------------------------------------
(* Constants of the program *)

TOAST_AUTO_DISMISS_DELAY_MS == 5000
TOAST_MINIMUM_DURATION_MS == 1000
MAXIMUM_VISIBLE_TOASTS == 5
PROGRESS_MINIMUM_PERCENT == 0
PROGRESS_MAXIMUM_PERCENT == 100
TOAST_ID_PREFIX == "toastly-"

DEFAULT_TOAST_CONFIG ==
    [ position             |-> "bottom-right",
      theme                |-> "light",
      defaultDurationMs    |-> TOAST_AUTO_DISMISS_DELAY_MS,
      maximumVisibleToasts |-> MAXIMUM_VISIBLE_TOASTS,
      newestOnTop          |-> TRUE,
      pauseOnHover         |-> TRUE,
      dismissibleByDefault |-> TRUE,
      defaultType          |-> "info" ]

\* { ...DEFAULT_TOAST_CONFIG, ...providedConfig }: a provided key overrides the default
MergeConfig(providedConfig) ==
    [ k \in DOMAIN DEFAULT_TOAST_CONFIG \cup DOMAIN providedConfig |->
        IF k \in DOMAIN providedConfig THEN providedConfig[k]
        ELSE DEFAULT_TOAST_CONFIG[k] ]

----------------------------------------------------------------------------
(* Inputs *)

\* The configurations an application provides, with the containers it mounts
\* (each container by its position input).
Scenarios ==
    << [ provided |-> <<>>,
         containers |-> { {} } ],
       [ provided |-> [ maximumVisibleToasts |-> 0, newestOnTop |-> FALSE,
                        defaultDurationMs |-> 2000 ],
         containers |-> { {} } ],
       [ provided |-> [ maximumVisibleToasts |-> 0, defaultDurationMs |-> 1000 ],
         containers |-> { {} } ],
       [ provided |-> [ maximumVisibleToasts |-> 1, newestOnTop |-> FALSE,
                        pauseOnHover |-> FALSE, defaultDurationMs |-> 1000 ],
         containers |-> { {} } ],
       [ provided |-> [ maximumVisibleToasts |-> 1, position |-> "top-left",
                        defaultDurationMs |-> 2000 ],
         containers |-> { {}, {"bottom-right"} } ],
       [ provided |-> [ maximumVisibleToasts |-> 2, pauseOnHover |-> FALSE,
                        defaultDurationMs |-> 500 ],
         containers |-> { {"top-left"} } ],
       [ provided |-> [ maximumVisibleToasts |-> 2, newestOnTop |-> FALSE,
                        defaultDurationMs |-> 0, position |-> "top-center" ],
         containers |-> { {} } ] >>

Payload(durationMs, progressPercent, position, type) ==
    [ message |-> "message", durationMs |-> durationMs,
      progressPercent |-> progressPercent, position |-> position, type |-> type ]

\* The payloads show is called with.
Payloads ==
    << Payload({}, {}, {}, {}),
       Payload({0}, {0}, {}, {}),
       Payload({500}, {100}, {"bottom-right"}, {"danger"}),
       Payload({-1}, {}, {}, {}),
       Payload({}, {101}, {}, {}),
       Payload({0}, {-1}, {}, {}),
       Payload({-5}, {150}, {}, {}) >>

\* ToastType
ToastTypes == { "info", "success", "warning", "danger" }

\* The message info, success, warning and danger are called with.
MessageArg == "message argument"

\* The options info, success, warning and danger are called with: none, some
\* fields, an object that carries a message and a type of its own, and a
\* duration that fails validation.
Options ==
    << << >>,
       [ durationMs |-> {0}, progressPercent |-> {0} ],
       [ message |-> "message in options", type |-> {"danger"},
         durationMs |-> {500}, position |-> {"bottom-right"} ],
       [ durationMs |-> {-1} ] >>

\* The percentages updateProgress is called with.
Percents == {-1, 100, 101}

DateNowValues == 0 .. MaxDateNow

\* ToastPosition
ToastPositions ==
    { "top-right", "top-left", "bottom-right", "bottom-left", "top-center",
      "bottom-center" }

NoId == << >>
\* an id no show call ever returns (the counter starts at 1)
UnknownId == <<TOAST_ID_PREFIX, 0, 0>>

----------------------------------------------------------------------------
(* Helpers: arrays, maps and the host's timers *)

Min(a, b) == IF a < b THEN a ELSE b
Max(a, b) == IF a > b THEN a ELSE b

\* Array.prototype.slice(start, end): a negative index counts from the end
Slice(arr, start, end) ==
    LET len   == Len(arr)
        from  == IF start < 0 THEN Max(len + start, 0) ELSE Min(start, len)
        final == IF end < 0 THEN Max(len + end, 0) ELSE Min(end, len)
    IN  IF from >= final THEN << >> ELSE SubSeq(arr, from + 1, final)

\* Array.prototype.slice(start): to the end of the array
SliceFrom(arr, start) == Slice(arr, start, Len(arr))


\* Map.prototype.set
MapSet(map, key, value) ==
    [ k \in DOMAIN map \cup {key} |-> IF k = key THEN value ELSE map[k] ]

\* Map.prototype.delete
MapDelete(map, key) == [ k \in DOMAIN map \ {key} |-> map[k] ]

\* setTimeout returns a handle that no live timeout and no stored handle has
FreshHandle(e) ==
    LET used == { t.handle : t \in e.pending }
                  \cup { e.activeTimers[k] : k \in DOMAIN e.activeTimers }
    IN  CHOOSE h \in 1 .. (Cardinality(used) + 1) : h \notin used

\* the delay after which the next timeout that is not yet due becomes due
NextDue(timeouts) ==
    LET waiting == { t.remaining : t \in { u \in timeouts : u.remaining > 0 } }
    IN  CHOOSE d \in waiting : \A other \in waiting : d <= other

\* clearTimeout(handle): the timeout, if still pending, will not fire
ClearTimeout(timeouts, handle) == { t \in timeouts : t.handle # handle }

----------------------------------------------------------------------------
(* ToastService: the engine. An engine value e holds the collection, the  *)
(* timer table and the host's pending timeouts.                           *)

Engine ==
    [ toasts |-> toasts, activeTimers |-> activeTimers, pending |-> pending,
      toastIdCounter |-> toastIdCounter ]

\* variant: only the upper bound is checked
validateProgressValue_UpperOnly(progressPercent) ==
    IF progressPercent > PROGRESS_MAXIMUM_PERCENT THEN "INVALID_PROGRESS_VALUE" ELSE "ok"

validateProgressValue(progressPercent) ==
    LET isValidProgress == /\ progressPercent >= PROGRESS_MINIMUM_PERCENT
                           /\ progressPercent <= PROGRESS_MAXIMUM_PERCENT
    IN  IF ~isValidProgress THEN "INVALID_PROGRESS_VALUE" ELSE "ok"
\* variant: a duration of 0 is rejected with the negative ones
validatePayload_RejectsZero(payload) ==
    IF \E d \in payload.durationMs : d <= 0 THEN "INVALID_DURATION"
    ELSE IF payload.progressPercent # {}
         THEN validateProgressValue(CHOOSE p \in payload.progressPercent : TRUE)
         ELSE "ok"

validatePayload(payload) ==
    IF \E d \in payload.durationMs : d < 0 THEN "INVALID_DURATION"
    ELSE IF payload.progressPercent # {}
         THEN validateProgressValue(CHOOSE p \in payload.progressPercent : TRUE)
         ELSE "ok"
\* variant: the id is built from the time alone
generateToastId_TimeOnly(counter, now) == <<TOAST_ID_PREFIX, now, 0>>

\* the id built from the incremented counter and the current time
generateToastId(counter, now) == <<TOAST_ID_PREFIX, now, counter>>

resolveDuration(providedDurationMs) ==
    IF providedDurationMs = {} THEN globalConfig.defaultDurationMs
    ELSE LET d == CHOOSE x \in providedDurationMs : TRUE
         IN  IF d = 0 THEN 0 ELSE Max(d, TOAST_MINIMUM_DURATION_MS)

\* payload.field ?? fallback
OrElse(optional, fallback) ==
    IF optional = {} THEN fallback ELSE CHOOSE x \in optional : TRUE

\* variant: the position is always the global one
createToastFromPayload_GlobalPosition(payload, counter, now) ==
    [ id              |-> generateToastId(counter, now),
      createdAt       |-> now,
      message         |-> payload.message,
      type            |-> OrElse(payload.type, globalConfig.defaultType),
      durationMs      |-> resolveDuration(payload.durationMs),
      progressPercent |-> payload.progressPercent,
      position        |-> globalConfig.position ]

createToastFromPayload(payload, counter, now) ==
    [ id              |-> generateToastId(counter, now),
      createdAt       |-> now,
      message         |-> payload.message,
      type            |-> OrElse(payload.type, globalConfig.defaultType),
      durationMs      |-> resolveDuration(payload.durationMs),
      progressPercent |-> payload.progressPercent,
      position        |-> OrElse(payload.position, globalConfig.position) ]
\* variant: the new toast always goes to the end
addToast_Append(e, toast) == [ e EXCEPT !.toasts = Append(@, toast) ]

\* variant: the collection is cut to the visible cap on insertion
addToast_Evicting(e, toast) ==
    [ e EXCEPT !.toasts =
        IF globalConfig.newestOnTop
        THEN Slice(<<toast>> \o @, 0, globalConfig.maximumVisibleToasts)
        ELSE Slice(Append(@, toast), 0, globalConfig.maximumVisibleToasts) ]

addToast(e, toast) ==
    [ e EXCEPT !.toasts = IF globalConfig.newestOnTop
                          THEN <<toast>> \o @
                          ELSE Append(@, toast) ]
\* variant: splice(findIndex(...), 1), which removes the last toast when
\* the id is not found (index -1)
removeToast_Splice(e, toastId) ==
    LET found == { i \in DOMAIN e.toasts : e.toasts[i].id = toastId }
        index == IF found = {} THEN Len(e.toasts)
                 ELSE CHOOSE i \in found : \A j \in found : i <= j
    IN  [ e EXCEPT !.toasts =
            IF @ = << >> THEN @
            ELSE SubSeq(@, 1, index - 1) \o SubSeq(@, index + 1, Len(@)) ]

removeToast(e, toastId) ==
    LET Keep(toast) == toast.id # toastId
    IN  [ e EXCEPT !.toasts = SelectSeq(@, Keep) ]

\* variant: no timer is ever scheduled
scheduleAutoDismissIfNeeded_Never(e, toast) == e

\* variant: only a negative duration is left without a timer
scheduleAutoDismissIfNeeded_Always(e, toast) ==
    IF toast.durationMs < 0 THEN e
    ELSE LET timerId == FreshHandle(e)
         IN  [ e EXCEPT
                 !.pending = @ \cup { [ handle |-> timerId, id |-> toast.id,
                                        remaining |-> toast.durationMs ] },
                 !.activeTimers = MapSet(@, toast.id, timerId) ]

scheduleAutoDismissIfNeeded(e, toast) ==
    IF toast.durationMs <= 0 THEN e
    ELSE LET timerId == FreshHandle(e)
         IN  [ e EXCEPT
                 !.pending = @ \cup { [ handle |-> timerId, id |-> toast.id,
                                        remaining |-> toast.durationMs ] },
                 !.activeTimers = MapSet(@, toast.id, timerId) ]

clearTimerForToast(e, toastId) ==
    IF toastId \in DOMAIN e.activeTimers
    THEN [ e EXCEPT !.pending = ClearTimeout(@, e.activeTimers[toastId]),
                    !.activeTimers = MapDelete(@, toastId) ]
    ELSE e

clearAllTimers(e) ==
    [ e EXCEPT
        !.pending = { t \in @ :
                        \A k \in DOMAIN e.activeTimers : e.activeTimers[k] # t.handle },
        !.activeTimers = << >> ]

\* the fields of a payload that the engine reads
PayloadFields == { "message", "durationMs", "progressPercent", "position", "type" }

\* variant: { message, type, ...options }: the options' own keys come last
Spread_OptionsLast(options, message, type) ==
    [ k \in PayloadFields |->
        IF k \in DOMAIN options THEN options[k]
        ELSE IF k = "message" THEN message
        ELSE IF k = "type" THEN {type}
        ELSE {} ]

\* { ...options, message, type }: the later keys override the options' own
Spread(options, message, type) ==
    [ k \in PayloadFields |->
        IF k = "message" THEN message
        ELSE IF k = "type" THEN {type}
        ELSE IF k \in DOMAIN options THEN options[k]
        ELSE {} ]

\* variant: the id is generated before the payload is validated
show_IdFirst(e, payload, now) ==
    LET counter == e.toastIdCounter + 1
        toast == createToastFromPayload(payload, counter, now)
    IN  IF validatePayload(payload) # "ok"
        THEN [ e EXCEPT !.toastIdCounter = counter ]
        ELSE [ scheduleAutoDismissIfNeeded(addToast(e, toast), toast)
               EXCEPT !.toastIdCounter = counter ]

\* show(payload): validatePayload throws before anything is written;
\* generateToastId, inside createToastFromPayload, increments the counter
show(e, payload, now) ==
    IF validatePayload(payload) # "ok"
    THEN e
    ELSE LET counter == e.toastIdCounter + 1
             toast == createToastFromPayload(payload, counter, now)
         IN  [ scheduleAutoDismissIfNeeded(addToast(e, toast), toast)
               EXCEPT !.toastIdCounter = counter ]

info(e, message, options, now) ==
    show(e, Spread(options, message, "info"), now)

success(e, message, options, now) ==
    show(e, Spread(options, message, "success"), now)

warning(e, message, options, now) ==
    show(e, Spread(options, message, "warning"), now)

danger(e, message, options, now) ==
    show(e, Spread(options, message, "danger"), now)

\* variant: the toast is removed and its timer entry is left in the table
dismiss_KeepTimer(e, toastId) == removeToast(e, toastId)

dismiss(e, toastId) == removeToast(clearTimerForToast(e, toastId), toastId)

dismissAll(e) == [ clearAllTimers(e) EXCEPT !.toasts = << >> ]

\* variant: the collection is updated without validating the percent
updateProgress_Unvalidated(e, toastId, progressPercent) ==
    [ e EXCEPT !.toasts =
        [ i \in DOMAIN @ |->
            IF @[i].id = toastId
            THEN [ @[i] EXCEPT !.progressPercent = {progressPercent} ]
            ELSE @[i] ] ]

\* variant: with an id that is not in the collection the first toast is updated
updateProgress_FirstWhenUnknown(e, toastId, progressPercent) ==
    IF validateProgressValue(progressPercent) # "ok" THEN e
    ELSE LET known == \E i \in DOMAIN e.toasts : e.toasts[i].id = toastId
         IN  [ e EXCEPT !.toasts =
                 [ i \in DOMAIN @ |->
                     IF @[i].id = toastId \/ (~known /\ i = 1)
                     THEN [ @[i] EXCEPT !.progressPercent = {progressPercent} ]
                     ELSE @[i] ] ]

\* variant: the toast's timer is cancelled with the update
updateProgress_ClearsTimer(e, toastId, progressPercent) ==
    IF validateProgressValue(progressPercent) # "ok" THEN e
    ELSE clearTimerForToast(
             [ e EXCEPT !.toasts =
                 [ i \in DOMAIN @ |->
                     IF @[i].id = toastId
                     THEN [ @[i] EXCEPT !.progressPercent = {progressPercent} ]
                     ELSE @[i] ] ],
             toastId)

\* a percent that fails validation throws before the collection is touched
updateProgress(e, toastId, progressPercent) ==
    IF validateProgressValue(progressPercent) # "ok" THEN e
    ELSE [ e EXCEPT !.toasts =
             [ i \in DOMAIN @ |->
                 IF @[i].id = toastId
                 THEN [ @[i] EXCEPT !.progressPercent = {progressPercent} ]
                 ELSE @[i] ] ]

pauseTimer(e, toastId) == clearTimerForToast(e, toastId)

\* variant: a timer is scheduled for an id that is not in the collection too
resumeTimer_AnyId(e, toastId) ==
    LET found == { i \in DOMAIN e.toasts : e.toasts[i].id = toastId }
        first == CHOOSE i \in found : \A j \in found : i <= j
    IN  IF found # {}
        THEN scheduleAutoDismissIfNeeded(e, e.toasts[first])
        ELSE scheduleAutoDismissIfNeeded(e, [ id |-> toastId,
                                              durationMs |-> TOAST_MINIMUM_DURATION_MS ])

\* variant: the new timer runs for the minimum duration, not the toast's
resumeTimer_Floor(e, toastId) ==
    LET found == { i \in DOMAIN e.toasts : e.toasts[i].id = toastId }
        first == CHOOSE i \in found : \A j \in found : i <= j
    IN  IF found # {} /\ e.toasts[first].durationMs > 0
        THEN scheduleAutoDismissIfNeeded(e, [ e.toasts[first] EXCEPT
                                               !.durationMs = TOAST_MINIMUM_DURATION_MS ])
        ELSE e

resumeTimer(e, toastId) ==
    LET found == { i \in DOMAIN e.toasts : e.toasts[i].id = toastId }
        \* Array.prototype.find: the first match
        first == CHOOSE i \in found : \A j \in found : i <= j
    IN  IF found # {} /\ e.toasts[first].durationMs > 0
        THEN scheduleAutoDismissIfNeeded(e, e.toasts[first])
        ELSE e

\* variant: always the last maxVisible toasts of the store
visibleToasts_Tail(allToasts) ==
    SliceFrom(allToasts, -globalConfig.maximumVisibleToasts)

\* variant: always the first maxVisible toasts of the store
visibleToasts_Head(allToasts) ==
    Slice(allToasts, 0, globalConfig.maximumVisibleToasts)

\* Array.prototype.find: the first toast with the id, or undefined
FindToast(allToasts, toastId) ==
    LET found == { i \in DOMAIN allToasts : allToasts[i].id = toastId }
    IN  IF found = {} THEN {}
        ELSE { allToasts[CHOOSE i \in found : \A j \in found : i <= j] }

\* toast.durationMs: reading a field of undefined raises a TypeError
ReadDurationMs(optionalToast) ==
    IF optionalToast = {} THEN "TypeError" ELSE "ok"

\* variant: toast.durationMs is read without the `toast &&` guard
resumeTimerCompletion_Unguarded(e, toastId) ==
    ReadDurationMs(FindToast(e.toasts, toastId))

\* how resumeTimer completes: `toast && toast.durationMs > 0` reads the field
\* only of a toast that find returned
resumeTimerCompletion(e, toastId) ==
    LET toast == FindToast(e.toasts, toastId)
    IN  IF toast = {} THEN "ok" ELSE ReadDurationMs(toast)

visibleToasts(allToasts) ==
    LET maxVisible == globalConfig.maximumVisibleToasts
    IN  IF globalConfig.newestOnTop
        THEN Slice(allToasts, 0, maxVisible)
        ELSE SliceFrom(allToasts, -maxVisible)

\* ToastService.position
position == globalConfig.position

\* the pauseOnHover flag the item component reads from the service
pauseOnHover == globalConfig.pauseOnHover

----------------------------------------------------------------------------
(* ToastContainerComponent and ToastItemComponent *)

\* the container's position input, else the global position
resolvedPosition(positionInput) == OrElse(positionInput, position)

\* variant: a container lists every visible toast
filteredToasts_All(positionInput, allToasts) == visibleToasts(allToasts)

filteredToasts(positionInput, allToasts) ==
    LET containerPosition == resolvedPosition(positionInput)
        Matches(toast) == toast.position = containerPosition
    IN  SelectSeq(visibleToasts(allToasts), Matches)

\* a toast has an element while some mounted container lists it
Rendered(allToasts, toastId) ==
    \E c \in containers :
        \E i \in DOMAIN filteredToasts(c, allToasts) :
            filteredToasts(c, allToasts)[i].id = toastId

ItemHandleMouseEnter(e, toastId) ==
    IF pauseOnHover THEN pauseTimer(e, toastId) ELSE e

ItemHandleMouseLeave(e, toastId) ==
    IF pauseOnHover THEN resumeTimer(e, toastId) ELSE e

ContainerHandleMouseEnter(e, toastId) == pauseTimer(e, toastId)

ContainerHandleMouseLeave(e, toastId) == resumeTimer(e, toastId)

----------------------------------------------------------------------------
(* The animation orchestrator (AnimationService) *)

ANIMATION_DEFAULT_DURATION_MS == 300
ANIMATION_REDUCED_MOTION_DURATION_MS == 100
ANIMATION_DEFAULT_EASING == "cubic-bezier(0.4, 0, 0.2, 1)"
DEFAULT_ANIMATION_PRESET == "slide"
REDUCED_MOTION_PRESET == "fade"

AnimationPresets == {"slide", "fade", "bounce", "none"}

\* preset name -> its definition; null (the "none" preset) is the empty optional
PRESET_MAP ==
    [ preset \in AnimationPresets |->
        CASE preset = "slide"  -> {"slideAnimation"}
          [] preset = "fade"   -> {"fadeAnimation"}
          [] preset = "bounce" -> {"bounceAnimation"}
          [] preset = "none"   -> {} ]

\* a position name as the words its hyphen separates; for these names a word
\* is a substring of the name exactly when it is one of the name's words
PositionWords ==
    [ positionName \in ToastPositions |->
        CASE positionName = "top-left"      -> <<"top", "left">>
          [] positionName = "top-center"    -> <<"top", "center">>
          [] positionName = "top-right"     -> <<"top", "right">>
          [] positionName = "bottom-left"   -> <<"bottom", "left">>
          [] positionName = "bottom-center" -> <<"bottom", "center">>
          [] positionName = "bottom-right"  -> <<"bottom", "right">> ]

\* String.prototype.includes and startsWith on a position name
Includes(positionName, word) ==
    \E i \in DOMAIN PositionWords[positionName] : PositionWords[positionName][i] = word

StartsWith(positionName, word) == PositionWords[positionName][1] = word

\* variant: the vertical edge is tested before the horizontal one
getDirectionFromPosition_VerticalFirst(positionName) ==
    IF StartsWith(positionName, "top") THEN "top"
    ELSE IF Includes(positionName, "left") THEN "left"
    ELSE IF Includes(positionName, "right") THEN "right"
    ELSE "bottom"

getDirectionFromPosition(positionName) ==
    IF Includes(positionName, "left") THEN "left"
    ELSE IF Includes(positionName, "right") THEN "right"
    ELSE IF StartsWith(positionName, "top") THEN "top"
    ELSE "bottom"

\* the arguments of the run in progress (history); phase "none": no run yet
NoRequest ==
    [ phase |-> "none", position |-> "top-right", preset |-> {}, custom |-> {},
      durationMs |-> {}, easing |-> {}, animates |-> FALSE ]

\* the service after construction, and an element no run has touched:
\*   prefersReducedMotion  the signal, set once from the media query
\*   status                "idle", "awaiting" (the run's promise is pending), "done"
\*   awaiting              what the pending run waits for: "custom" or "runner"
\*   customCalls           the custom callbacks invoked with the element, in order
\*   runnerCalls           the preset runners invoked with the element, in order
\*   opacity               element.style.opacity as the service has set it ("": not set)
AnimationServiceInit(reducedMotion) ==
    [ prefersReducedMotion |-> reducedMotion, status |-> "idle", awaiting |-> "nothing",
      customCalls |-> << >>, runnerCalls |-> << >>, opacity |-> "",
      request |-> NoRequest ]

\* custom?.enter / custom?.leave is a function
HasCallback(custom, phase) == \E callbacks \in custom : phase \in callbacks

\* variant: the none preset is handled before the custom callback
runEnterAnimation_NoneFirst(a, positionName, preset, custom, durationMs, easing, animates) ==
    LET effectivePreset ==
            IF a.prefersReducedMotion THEN REDUCED_MOTION_PRESET
            ELSE OrElse(preset, DEFAULT_ANIMATION_PRESET)
        presetDef == PRESET_MAP[effectivePreset]
        direction == getDirectionFromPosition(positionName)
        duration ==
            IF a.prefersReducedMotion THEN ANIMATION_REDUCED_MOTION_DURATION_MS
            ELSE OrElse(durationMs, ANIMATION_DEFAULT_DURATION_MS)
        easingValue == OrElse(easing, ANIMATION_DEFAULT_EASING)
        called == [a EXCEPT !.runnerCalls =
                      Append(@, [ runner |-> OrElse(presetDef, "null"), phase |-> "enter",
                                  direction |-> direction, duration |-> duration,
                                  easing |-> easingValue ])]
    IN  IF effectivePreset = "none"
        THEN [a EXCEPT !.opacity = "1", !.status = "done"]
        ELSE IF HasCallback(custom, "enter")
        THEN [a EXCEPT !.customCalls = Append(@, "enter"),
                       !.status = "awaiting", !.awaiting = "custom"]
        ELSE IF presetDef = {}
        THEN [a EXCEPT !.opacity = "1", !.status = "done"]
        ELSE IF animates
        THEN [called EXCEPT !.status = "awaiting", !.awaiting = "runner"]
        ELSE [called EXCEPT !.status = "done"]

\* the synchronous part of runEnterAnimation(element, position, preset, custom,
\* durationMs, easing), up to its first await or its return; animates: the
\* preset runner returns an Animation that has a finished promise
runEnterAnimation(a, positionName, preset, custom, durationMs, easing, animates) ==
    LET effectivePreset ==
            IF a.prefersReducedMotion THEN REDUCED_MOTION_PRESET
            ELSE OrElse(preset, DEFAULT_ANIMATION_PRESET)
        presetDef == PRESET_MAP[effectivePreset]
        direction == getDirectionFromPosition(positionName)
        duration ==
            IF a.prefersReducedMotion THEN ANIMATION_REDUCED_MOTION_DURATION_MS
            ELSE OrElse(durationMs, ANIMATION_DEFAULT_DURATION_MS)
        easingValue == OrElse(easing, ANIMATION_DEFAULT_EASING)
        called == [a EXCEPT !.runnerCalls =
                      Append(@, [ runner |-> OrElse(presetDef, "null"), phase |-> "enter",
                                  direction |-> direction, duration |-> duration,
                                  easing |-> easingValue ])]
    IN  IF HasCallback(custom, "enter")
        THEN [a EXCEPT !.customCalls = Append(@, "enter"),
                       !.status = "awaiting", !.awaiting = "custom"]
        ELSE IF effectivePreset = "none"
        THEN [a EXCEPT !.opacity = "1", !.status = "done"]
        ELSE IF presetDef = {}
        THEN [a EXCEPT !.opacity = "1", !.status = "done"]
        ELSE IF animates
        THEN [called EXCEPT !.status = "awaiting", !.awaiting = "runner"]
        ELSE [called EXCEPT !.status = "done"]

\* variant: the caller's durationMs wins over the reduced-motion duration
runLeaveAnimation_CallerDuration(a, positionName, preset, custom, durationMs, easing, animates) ==
    LET effectivePreset ==
            IF a.prefersReducedMotion THEN REDUCED_MOTION_PRESET
            ELSE OrElse(preset, DEFAULT_ANIMATION_PRESET)
        presetDef == PRESET_MAP[effectivePreset]
        direction == getDirectionFromPosition(positionName)
        duration ==
            IF a.prefersReducedMotion /\ durationMs = {}
            THEN ANIMATION_REDUCED_MOTION_DURATION_MS
            ELSE OrElse(durationMs, ANIMATION_DEFAULT_DURATION_MS)
        easingValue == OrElse(easing, ANIMATION_DEFAULT_EASING)
        called == [a EXCEPT !.runnerCalls =
                      Append(@, [ runner |-> OrElse(presetDef, "null"), phase |-> "leave",
                                  direction |-> direction, duration |-> duration,
                                  easing |-> easingValue ])]
    IN  IF HasCallback(custom, "leave")
        THEN [a EXCEPT !.customCalls = Append(@, "leave"),
                       !.status = "awaiting", !.awaiting = "custom"]
        ELSE IF effectivePreset = "none"
        THEN [a EXCEPT !.opacity = "0", !.status = "done"]
        ELSE IF presetDef = {}
        THEN [a EXCEPT !.opacity = "0", !.status = "done"]
        ELSE IF animates
        THEN [called EXCEPT !.status = "awaiting", !.awaiting = "runner"]
        ELSE [called EXCEPT !.status = "done"]

\* variant: the none preset leaves the element opaque on leave
runLeaveAnimation_EnterOpacity(a, positionName, preset, custom, durationMs, easing, animates) ==
    LET effectivePreset ==
            IF a.prefersReducedMotion THEN REDUCED_MOTION_PRESET
            ELSE OrElse(preset, DEFAULT_ANIMATION_PRESET)
        presetDef == PRESET_MAP[effectivePreset]
        direction == getDirectionFromPosition(positionName)
        duration ==
            IF a.prefersReducedMotion THEN ANIMATION_REDUCED_MOTION_DURATION_MS
            ELSE OrElse(durationMs, ANIMATION_DEFAULT_DURATION_MS)
        easingValue == OrElse(easing, ANIMATION_DEFAULT_EASING)
        called == [a EXCEPT !.runnerCalls =
                      Append(@, [ runner |-> OrElse(presetDef, "null"), phase |-> "leave",
                                  direction |-> direction, duration |-> duration,
                                  easing |-> easingValue ])]
    IN  IF HasCallback(custom, "leave")
        THEN [a EXCEPT !.customCalls = Append(@, "leave"),
                       !.status = "awaiting", !.awaiting = "custom"]
        ELSE IF effectivePreset = "none"
        THEN [a EXCEPT !.opacity = "1", !.status = "done"]
        ELSE IF presetDef = {}
        THEN [a EXCEPT !.opacity = "0", !.status = "done"]
        ELSE IF animates
        THEN [called EXCEPT !.status = "awaiting", !.awaiting = "runner"]
        ELSE [called EXCEPT !.status = "done"]

\* the synchronous part of runLeaveAnimation
runLeaveAnimation(a, positionName, preset, custom, durationMs, easing, animates) ==
    LET effectivePreset ==
            IF a.prefersReducedMotion THEN REDUCED_MOTION_PRESET
            ELSE OrElse(preset, DEFAULT_ANIMATION_PRESET)
        presetDef == PRESET_MAP[effectivePreset]
        direction == getDirectionFromPosition(positionName)
        duration ==
            IF a.prefersReducedMotion THEN ANIMATION_REDUCED_MOTION_DURATION_MS
            ELSE OrElse(durationMs, ANIMATION_DEFAULT_DURATION_MS)
        easingValue == OrElse(easing, ANIMATION_DEFAULT_EASING)
        called == [a EXCEPT !.runnerCalls =
                      Append(@, [ runner |-> OrElse(presetDef, "null"), phase |-> "leave",
                                  direction |-> direction, duration |-> duration,
                                  easing |-> easingValue ])]
    IN  IF HasCallback(custom, "leave")
        THEN [a EXCEPT !.customCalls = Append(@, "leave"),
                       !.status = "awaiting", !.awaiting = "custom"]
        ELSE IF effectivePreset = "none"
        THEN [a EXCEPT !.opacity = "0", !.status = "done"]
        ELSE IF presetDef = {}
        THEN [a EXCEPT !.opacity = "0", !.status = "done"]
        ELSE IF animates
        THEN [called EXCEPT !.status = "awaiting", !.awaiting = "runner"]
        ELSE [called EXCEPT !.status = "done"]

\* the rest of a run after its await: the function returns
resumeAfterAwait(a) == [a EXCEPT !.status = "done", !.awaiting = "nothing"]

isReducedMotion(a) == a.prefersReducedMotion

----------------------------------------------------------------------------
(* The state machine *)

\* arg: the index of show's payload, or updateProgress's percent;
\* again: the step before was the same operation on the same id
Op(name, toastId, arg, result) ==
    [ op |-> name, id |-> toastId, arg |-> arg, result |-> result,
      again |-> (lastOp.op = name /\ lastOp.id = toastId) ]

\* the ids a caller may pass: every id ever returned, and one never returned
IdArgs == issued \cup {UnknownId}

Present(allToasts, toastId) == \E i \in DOMAIN allToasts : allToasts[i].id = toastId

\* the engine's new state; an element that is no longer rendered is no longer hovered
Commit(e) ==
    /\ Cardinality(e.pending) <= MaxPending
    /\ toasts' = e.toasts
    /\ activeTimers' = e.activeTimers
    /\ pending' = e.pending
    /\ hovered' = IF hovered # NoId /\ Rendered(e.toasts, hovered) THEN hovered ELSE NoId

ServiceInit(i) ==
    /\ globalConfig = MergeConfig(Scenarios[i].provided)
    /\ containers = Scenarios[i].containers
    /\ toastIdCounter = 0
    /\ toasts = << >>
    /\ activeTimers = << >>
    /\ pending = {}
    /\ hovered = NoId
    /\ destroyed = FALSE
    /\ lastOp = [ op |-> "init", id |-> NoId, arg |-> 0, result |-> "ok", again |-> FALSE ]
    /\ issued = {}
    /\ showCount = 0
    /\ removedCount = 0
    /\ clearedCount = 0
    /\ fired = {}

Init ==
    /\ \E i \in DOMAIN Scenarios : ServiceInit(i)
    /\ animation = AnimationServiceInit(FALSE)

\* a call of show or of one of its wrappers: the engine becomes e, what the
\* call left behind when it returned toastId (result "ok") or threw
CreateToast(result, e, toastId) ==
    /\ ~destroyed
    /\ e.toastIdCounter <= MaxShows
    /\ Commit(e)
    /\ toastIdCounter' = e.toastIdCounter
    /\ issued' = IF result = "ok" THEN issued \cup {toastId} ELSE issued
    /\ showCount' = IF result = "ok" THEN showCount + 1 ELSE showCount
    /\ UNCHANGED <<animation, fired, globalConfig, containers, destroyed, removedCount,
                   clearedCount>>

\* show(payload)
Show(i, now) ==
    CreateToast(validatePayload(Payloads[i]),
                show(Engine, Payloads[i], now),
                generateToastId(toastIdCounter + 1, now))

\* what info, success, warning or danger(message, options) passes to show
ConvenienceResult(type, j) == validatePayload(Spread(Options[j], MessageArg, type))

\* info, success, warning or danger(message, options)
Convenience(type, j, now) ==
    LET counter == toastIdCounter + 1
        e == CASE type = "info"    -> info(Engine, MessageArg, Options[j], now)
               [] type = "success" -> success(Engine, MessageArg, Options[j], now)
               [] type = "warning" -> warning(Engine, MessageArg, Options[j], now)
               [] type = "danger"  -> danger(Engine, MessageArg, Options[j], now)
    IN  CreateToast(ConvenienceResult(type, j), e, generateToastId(counter, now))

Dismiss(toastId) ==
    /\ ~destroyed
    /\ Commit(dismiss(Engine, toastId))
    /\ removedCount' = removedCount + (IF Present(toasts, toastId) THEN 1 ELSE 0)
    /\ UNCHANGED <<animation, fired, globalConfig, containers, destroyed, toastIdCounter, issued, showCount,
                   clearedCount>>

DismissAll ==
    /\ ~destroyed
    /\ Commit(dismissAll(Engine))
    /\ clearedCount' = clearedCount + Len(toasts)
    /\ UNCHANGED <<animation, fired, globalConfig, containers, destroyed, toastIdCounter, issued, showCount,
                   removedCount>>

\* updateProgress(id, percent): the caller sees the validation error, if any
UpdateProgress(toastId, percent) ==
    /\ ~destroyed
    /\ Commit(updateProgress(Engine, toastId, percent))
    /\ UNCHANGED <<animation, fired, globalConfig, containers, destroyed, toastIdCounter, issued, showCount,
                   removedCount, clearedCount>>

PauseTimer(toastId) ==
    /\ ~destroyed
    /\ Commit(pauseTimer(Engine, toastId))
    /\ UNCHANGED <<animation, fired, globalConfig, containers, destroyed, toastIdCounter, issued, showCount,
                   removedCount, clearedCount>>

ResumeTimer(toastId) ==
    /\ ~destroyed
    /\ Commit(resumeTimer(Engine, toastId))
    /\ UNCHANGED <<animation, fired, globalConfig, containers, destroyed, toastIdCounter, issued, showCount,
                   removedCount, clearedCount>>

\* the service is destroyed: the callback the constructor registered with
\* destroyRef.onDestroy runs clearAllTimers(); no caller uses the service after
Destroy ==
    /\ ~destroyed
    /\ Commit(clearAllTimers(Engine))
    /\ destroyed' = TRUE
    /\ UNCHANGED <<animation, fired, globalConfig, containers, toastIdCounter, issued, showCount,
                   removedCount, clearedCount>>

\* a timeout whose delay has elapsed fires: its callback runs dismiss(toast.id)
TimerFire(timeout) ==
    /\ timeout.remaining = 0
    /\ Commit(dismiss([ Engine EXCEPT !.pending = @ \ {timeout} ], timeout.id))
    /\ removedCount' = removedCount + (IF Present(toasts, timeout.id) THEN 1 ELSE 0)
    /\ fired' = fired \cup {timeout.id}
    /\ UNCHANGED <<animation, globalConfig, containers, destroyed, toastIdCounter, issued,
                   showCount,
                   clearedCount>>

\* time passes until the next pending timeout is due
Tick ==
    /\ \E t \in pending : t.remaining > 0
    /\ LET elapsed == NextDue(pending)
       IN  pending' = { [ t EXCEPT !.remaining = Max(@ - elapsed, 0) ] : t \in pending }
    /\ UNCHANGED <<animation, fired, globalConfig, containers, destroyed, toastIdCounter, toasts, activeTimers,
                   hovered, issued, showCount, removedCount, clearedCount>>

\* the pointer enters a toast's element: the item's host listener, then the
\* listener the container's template puts on the same element
MouseEnter(toastId) ==
    /\ ~destroyed
    /\ hovered = NoId
    /\ Rendered(toasts, toastId)
    /\ LET e == ContainerHandleMouseEnter(ItemHandleMouseEnter(Engine, toastId), toastId)
       IN  /\ Cardinality(e.pending) <= MaxPending
           /\ toasts' = e.toasts
           /\ activeTimers' = e.activeTimers
           /\ pending' = e.pending
    /\ hovered' = toastId
    /\ UNCHANGED <<animation, fired, globalConfig, containers, destroyed, toastIdCounter, issued, showCount,
                   removedCount, clearedCount>>

MouseLeave(toastId) ==
    /\ ~destroyed
    /\ hovered = toastId
    /\ toastId # NoId
    /\ LET e == ContainerHandleMouseLeave(ItemHandleMouseLeave(Engine, toastId), toastId)
       IN  /\ Cardinality(e.pending) <= MaxPending
           /\ toasts' = e.toasts
           /\ activeTimers' = e.activeTimers
           /\ pending' = e.pending
    /\ hovered' = NoId
    /\ UNCHANGED <<animation, fired, globalConfig, containers, destroyed, toastIdCounter, issued, showCount,
                   removedCount, clearedCount>>

\* what show returns: the new toast's id, or nothing when it throws
ShowResult(i) == validatePayload(Payloads[i])
ShowReturn(i, now) ==
    IF ShowResult(i) = "ok" THEN generateToastId(toastIdCounter + 1, now) ELSE NoId

\* the engine under its callers and its timers
Next ==
    \/ \E i \in DOMAIN Payloads, now \in DateNowValues :
          Show(i, now) /\ UNCHANGED lastOp
    \/ \E toastId \in IdArgs : Dismiss(toastId) /\ UNCHANGED lastOp
    \/ DismissAll /\ UNCHANGED lastOp
    \/ \E toastId \in IdArgs, percent \in Percents :
          UpdateProgress(toastId, percent) /\ UNCHANGED lastOp
    \/ \E toastId \in IdArgs : PauseTimer(toastId) /\ UNCHANGED lastOp
    \/ \E toastId \in IdArgs : ResumeTimer(toastId) /\ UNCHANGED lastOp
    \/ \E timeout \in pending : TimerFire(timeout) /\ UNCHANGED lastOp
    \/ Tick /\ UNCHANGED lastOp
    \/ Destroy /\ UNCHANGED lastOp

Spec == Init /\ [][Next]_vars

\* the same engine, with the last operation and its outcome recorded
NextTrace ==
    \/ \E i \in DOMAIN Payloads, now \in DateNowValues :
          Show(i, now) /\ lastOp' = Op("show", ShowReturn(i, now), i, ShowResult(i))
    \/ \E toastId \in IdArgs :
          Dismiss(toastId) /\ lastOp' = Op("dismiss", toastId, 0, "ok")
    \/ DismissAll /\ lastOp' = Op("dismissAll", NoId, 0, "ok")
    \/ \E toastId \in IdArgs, percent \in Percents :
          /\ UpdateProgress(toastId, percent)
          /\ lastOp' = Op("updateProgress", toastId, percent,
                          validateProgressValue(percent))
    \/ \E toastId \in IdArgs :
          PauseTimer(toastId) /\ lastOp' = Op("pauseTimer", toastId, 0, "ok")
    \/ \E toastId \in IdArgs :
          /\ ResumeTimer(toastId)
          /\ lastOp' = Op("resumeTimer", toastId, 0,
                          resumeTimerCompletion(Engine, toastId))
    \/ \E timeout \in pending :
          TimerFire(timeout) /\ lastOp' = Op("timerFire", timeout.id, 0, "ok")
    \/ Tick /\ lastOp' = Op("tick", NoId, 0, "ok")
    \/ Destroy /\ lastOp' = Op("destroy", NoId, 0, "ok")

SpecTrace == Init /\ [][NextTrace]_vars

\* the rendering surface: toasts are shown and removed while the pointer moves
NextHover ==
    \/ \E i \in DOMAIN Payloads, now \in DateNowValues :
          Show(i, now) /\ lastOp' = Op("show", ShowReturn(i, now), i, ShowResult(i))
    \/ \E toastId \in IdArgs :
          Dismiss(toastId) /\ lastOp' = Op("dismiss", toastId, 0, "ok")
    \/ \E timeout \in pending :
          TimerFire(timeout) /\ lastOp' = Op("timerFire", timeout.id, 0, "ok")
    \/ Tick /\ lastOp' = Op("tick", NoId, 0, "ok")
    \/ \E toastId \in issued :
          MouseEnter(toastId) /\ lastOp' = Op("mouseenter", toastId, 0, "ok")
    \/ \E toastId \in issued :
          MouseLeave(toastId) /\ lastOp' = Op("mouseleave", toastId, 0, "ok")

SpecHover == Init /\ [][NextHover]_vars

\* the convenience methods next to show, with the last call recorded
NextConvenience ==
    \/ \E i \in DOMAIN Payloads, now \in DateNowValues :
          Show(i, now) /\ lastOp' = Op("show", ShowReturn(i, now), i, ShowResult(i))
    \/ \E type \in ToastTypes, j \in DOMAIN Options, now \in DateNowValues :
          /\ Convenience(type, j, now)
          /\ lastOp' = Op(type,
                          IF ConvenienceResult(type, j) = "ok"
                          THEN generateToastId(toastIdCounter + 1, now) ELSE NoId,
                          j, ConvenienceResult(type, j))
    \/ \E timeout \in pending :
          TimerFire(timeout) /\ lastOp' = Op("timerFire", timeout.id, 0, "ok")
    \/ Tick /\ lastOp' = Op("tick", NoId, 0, "ok")

SpecConvenience == Init /\ [][NextConvenience]_vars

----------------------------------------------------------------------------
(* The animation orchestrator's state machine *)

\* the arguments a caller may pass
PresetArgs == {{}} \cup {{preset} : preset \in AnimationPresets}
CustomArgs == {{}} \cup {{callbacks} : callbacks \in SUBSET {"enter", "leave"}}
DurationArgs == {{}, {500}}
EasingArgs == {{}, {"linear"}}

serviceVars == <<globalConfig, containers, toastIdCounter, toasts, activeTimers, pending,
                 hovered, destroyed, lastOp, issued, showCount, removedCount,
                 clearedCount, fired>>

\* the service is constructed in a host whose media query may or may not match
InitAnimation ==
    /\ ServiceInit(1)
    /\ \E reducedMotion \in BOOLEAN : animation = AnimationServiceInit(reducedMotion)

Request(phase, positionName, preset, custom, durationMs, easing, animates) ==
    [ phase |-> phase, position |-> positionName, preset |-> preset, custom |-> custom,
      durationMs |-> durationMs, easing |-> easing, animates |-> animates ]

RunEnterAnimation(positionName, preset, custom, durationMs, easing, animates) ==
    /\ animation.status = "idle"
    /\ animation' =
          [ runEnterAnimation(animation, positionName, preset, custom, durationMs, easing,
                              animates)
            EXCEPT !.request = Request("enter", positionName, preset, custom, durationMs,
                                       easing, animates) ]
    /\ UNCHANGED serviceVars

RunLeaveAnimation(positionName, preset, custom, durationMs, easing, animates) ==
    /\ animation.status = "idle"
    /\ animation' =
          [ runLeaveAnimation(animation, positionName, preset, custom, durationMs, easing,
                              animates)
            EXCEPT !.request = Request("leave", positionName, preset, custom, durationMs,
                                       easing, animates) ]
    /\ UNCHANGED serviceVars

\* the custom callback has returned and the promise it returned, if any, settles
CustomCompletes ==
    /\ animation.status = "awaiting"
    /\ animation.awaiting = "custom"
    /\ animation' = resumeAfterAwait(animation)
    /\ UNCHANGED serviceVars

\* the Animation the preset runner returned finishes
AnimationFinishes ==
    /\ animation.status = "awaiting"
    /\ animation.awaiting = "runner"
    /\ animation' = resumeAfterAwait(animation)
    /\ UNCHANGED serviceVars

\* the next run is on an element no run has touched
NextElement ==
    /\ animation.status = "done"
    /\ animation' = AnimationServiceInit(animation.prefersReducedMotion)
    /\ UNCHANGED serviceVars

NextAnimation ==
    \/ \E positionName \in ToastPositions, preset \in PresetArgs, custom \in CustomArgs,
          durationMs \in DurationArgs, easing \in EasingArgs, animates \in BOOLEAN :
          RunEnterAnimation(positionName, preset, custom, durationMs, easing, animates)
    \/ \E positionName \in ToastPositions, preset \in PresetArgs, custom \in CustomArgs,
          durationMs \in DurationArgs, easing \in EasingArgs, animates \in BOOLEAN :
          RunLeaveAnimation(positionName, preset, custom, durationMs, easing, animates)
    \/ CustomCompletes
    \/ AnimationFinishes
    \/ NextElement

SpecAnimation == InitAnimation /\ [][NextAnimation]_vars

\* a toast that should auto-dismiss and has no timeout pending
Paused(toastId) ==
    /\ Present(toasts, toastId)
    /\ \E i \in DOMAIN toasts : toasts[i].id = toastId /\ toasts[i].durationMs > 0
    /\ \A t \in pending : t.id # toastId

\* the engine left to its timers: callers show toasts, pause and resume them,
\* and never dismiss
NextLive ==
    \/ \E i \in DOMAIN Payloads, now \in DateNowValues :
          Show(i, now) /\ UNCHANGED lastOp
    \/ \E toastId \in issued : PauseTimer(toastId) /\ UNCHANGED lastOp
    \/ \E toastId \in issued : ResumeTimer(toastId) /\ UNCHANGED lastOp
    \/ \E timeout \in pending : TimerFire(timeout) /\ UNCHANGED lastOp
    \/ Tick /\ UNCHANGED lastOp

\* time passes and due timeouts fire; a paused toast is resumed in the end
SpecLive ==
    /\ Init
    /\ [][NextLive]_vars
    /\ SF_vars(Tick /\ UNCHANGED lastOp)
    /\ SF_vars(\E timeout \in pending : TimerFire(timeout) /\ UNCHANGED lastOp)
    /\ WF_vars(\E toastId \in issued :
                   Paused(toastId) /\ ResumeTimer(toastId) /\ UNCHANGED lastOp)

----------------------------------------------------------------------------
(* Properties *)

\* the pending timeouts whose callback dismisses toastId
PendingFor(timeouts, toastId) == { t \in timeouts : t.id = toastId }

ToastWithId(allToasts, toastId) ==
    allToasts[CHOOSE i \in DOMAIN allToasts : allToasts[i].id = toastId]

\* C1: every toast with durationMs > 0 has at most one pending auto-dismiss
\* timer, whatever calls were made, resumeTimer without pauseTimer included.
C1_AtMostOneLiveTimer ==
    \A i \in DOMAIN toasts :
        toasts[i].durationMs > 0 =>
            Cardinality(PendingFor(pending, toasts[i].id)) <= 1

\* C2: every pending auto-dismiss timer belongs to a toast that is in the
\* collection.
C2_TimersBelongToToasts ==
    \A t \in pending : Present(toasts, t.id)

\* C3: pauseTimer(id) leaves the collection as it was and leaves no pending
\* timer for id; when there was no timer for id it changes nothing.
C3_PauseClearsTimer ==
    [][ lastOp'.op = "pauseTimer" =>
          /\ toasts' = toasts
          /\ PendingFor(pending', lastOp'.id) = {}
          /\ (lastOp'.id \notin DOMAIN activeTimers /\ PendingFor(pending, lastOp'.id) = {}
                => UNCHANGED <<activeTimers, pending>>) ]_vars

\* C4: when pauseOnHover is false, a hover-enter or hover-leave on a toast
\* leaves the timer table and the pending timers unchanged.
C4_HoverIgnoredWhenFlagOff ==
    [][ (~globalConfig.pauseOnHover /\ lastOp'.op \in {"mouseenter", "mouseleave"})
          => UNCHANGED <<activeTimers, pending>> ]_vars

\* C5: visibleToasts() never holds more than maximumVisibleToasts toasts.
C5_VisibleWithinCap ==
    Len(visibleToasts(toasts)) <= globalConfig.maximumVisibleToasts

\* C6: no two toasts in the collection share an id, and every successful show
\* returned an id that no earlier show had returned (the ids returned so far
\* are as many as the successful shows).
C6_IdsUniqueNeverReused ==
    /\ \A i, j \in DOMAIN toasts : toasts[i].id = toasts[j].id => i = j
    /\ Cardinality(issued) = showCount
    /\ \A i \in DOMAIN toasts : toasts[i].id \in issued

\* two shows at the same Date.now(), the toast of one of them already removed
C6_Witness ==
    /\ showCount = 2
    /\ Len(toasts) = 1
    /\ \A a, b \in issued : a[2] = b[2]

\* C7: without dismissAll, the size of the collection is the number of
\* successful shows minus the number of removals that removed a toast.
C7_SizeIsShowsMinusRemovals ==
    clearedCount = 0 => Len(toasts) = showCount - removedCount

\* shows past the visible cap, and a removal
C7_Witness ==
    /\ clearedCount = 0
    /\ showCount = 2
    /\ removedCount = 1
    /\ Len(toasts) > globalConfig.maximumVisibleToasts

\* C8: dismiss(id) completes without an error, and a second dismiss(id) right
\* after the first changes neither the collection nor the timers.
C8_DismissIdempotent ==
    [][ lastOp'.op = "dismiss" =>
          /\ lastOp'.result = "ok"
          /\ (lastOp.op = "dismiss" /\ lastOp.id = lastOp'.id
                => UNCHANGED <<toasts, activeTimers, pending>>) ]_vars

\* a toast that was shown has been dismissed twice in a row, others remaining
C8_Witness ==
    /\ lastOp.op = "dismiss"
    /\ lastOp.again
    /\ lastOp.id \in issued
    /\ toasts # << >>

OutOfRange(percent) ==
    percent < PROGRESS_MINIMUM_PERCENT \/ percent > PROGRESS_MAXIMUM_PERCENT

\* C9 as stated: a negative durationMs fails show with INVALID_DURATION, a
\* progressPercent outside [0,100] fails show and updateProgress with
\* INVALID_PROGRESS_VALUE, and any other payload is accepted.
C9_ValidationErrors_AsStated ==
    /\ lastOp.op = "show" =>
         LET payload == Payloads[lastOp.arg]
             negative == \E d \in payload.durationMs : d < 0
             outside  == \E x \in payload.progressPercent : OutOfRange(x)
         IN  /\ negative => lastOp.result = "INVALID_DURATION"
             /\ outside => lastOp.result = "INVALID_PROGRESS_VALUE"
             /\ (~negative /\ ~outside) => lastOp.result = "ok"
    /\ lastOp.op = "updateProgress" =>
         IF OutOfRange(lastOp.arg) THEN lastOp.result = "INVALID_PROGRESS_VALUE"
         ELSE lastOp.result = "ok"

\* C9, amended: as above, but a payload with both a negative durationMs and a
\* progressPercent outside [0,100] fails with INVALID_DURATION (the duration
\* is validated first).
C9_ValidationErrors ==
    /\ lastOp.op = "show" =>
         LET payload == Payloads[lastOp.arg]
             negative == \E d \in payload.durationMs : d < 0
             outside  == \E x \in payload.progressPercent : OutOfRange(x)
         IN  /\ negative => lastOp.result = "INVALID_DURATION"
             /\ (outside /\ ~negative) => lastOp.result = "INVALID_PROGRESS_VALUE"
             /\ (~negative /\ ~outside) => lastOp.result = "ok" /\ lastOp.id \in issued
    /\ lastOp.op = "updateProgress" =>
         IF OutOfRange(lastOp.arg) THEN lastOp.result = "INVALID_PROGRESS_VALUE"
         ELSE lastOp.result = "ok"

\* show has thrown for a payload whose durationMs and progressPercent are both
\* invalid
C9_Witness ==
    /\ lastOp.op = "show"
    /\ lastOp.result = "INVALID_DURATION"
    /\ \E x \in Payloads[lastOp.arg].progressPercent : OutOfRange(x)

\* C10: an updateProgress that fails validation leaves the collection (the
\* toast's stored progressPercent with it) and the timers as they were.
C10_RejectedUpdateChangesNothing ==
    [][ (lastOp'.op = "updateProgress" /\ lastOp'.result # "ok")
          => UNCHANGED <<toasts, activeTimers, pending>> ]_vars

\* updateProgress has thrown for a toast that is present, has a stored
\* progress and a running timer
C10_Witness ==
    /\ lastOp.op = "updateProgress"
    /\ lastOp.result = "INVALID_PROGRESS_VALUE"
    /\ Present(toasts, lastOp.id)
    /\ ToastWithId(toasts, lastOp.id).progressPercent = {100}
    /\ lastOp.id \in DOMAIN activeTimers

\* C11: a toast whose durationMs is 0 never has a timer, stored or pending,
\* and a step that takes it out of the collection is dismiss of its id or
\* dismissAll, whatever pauseTimer and resumeTimer calls were made on it.
C11_ZeroDurationNeverAutoRemoved ==
    [][ /\ \A i \in DOMAIN toasts' :
              toasts'[i].durationMs = 0 =>
                  /\ toasts'[i].id \notin DOMAIN activeTimers'
                  /\ PendingFor(pending', toasts'[i].id) = {}
        /\ \A i \in DOMAIN toasts :
              (toasts[i].durationMs = 0 /\ ~Present(toasts', toasts[i].id)) =>
                  \/ lastOp'.op = "dismissAll"
                  \/ lastOp'.op = "dismiss" /\ lastOp'.id = toasts[i].id ]_vars

\* resumeTimer has just been called on a toast of duration 0 that is still
\* in the collection
C11_Witness ==
    /\ lastOp.op = "resumeTimer"
    /\ Present(toasts, lastOp.id)
    /\ ToastWithId(toasts, lastOp.id).durationMs = 0

\* every id show can return
AllIds ==
    { generateToastId(counter, now) :
        counter \in 1 .. MaxShows, now \in DateNowValues }

\* C12: a successful show of a toast whose resolved durationMs is positive
\* stores a timer for it that is pending with the full duration, and, when
\* pending timers fire and no toast stays paused forever, every such toast
\* leaves the collection through its timer, with no dismiss from a caller.
C12_AutoDismissEventually ==
    /\ [][ toastIdCounter' # toastIdCounter =>
             \A i \in DOMAIN toasts' :
                 (toasts'[i].id[3] = toastIdCounter' /\ toasts'[i].durationMs > 0) =>
                     /\ toasts'[i].id \in DOMAIN activeTimers'
                     /\ \E t \in pending' :
                           /\ t.handle = activeTimers'[toasts'[i].id]
                           /\ t.id = toasts'[i].id
                           /\ t.remaining = toasts'[i].durationMs ]_vars
    /\ \A toastId \in AllIds :
          (Present(toasts, toastId) /\ ToastWithId(toasts, toastId).durationMs > 0)
              ~> ~Present(toasts, toastId)

\* the timer of one toast has removed it; another toast waits with its timer
C12_Witness ==
    /\ showCount = 2
    /\ removedCount = 1
    /\ Len(toasts) = 1
    /\ toasts[1].durationMs > 0
    /\ toasts[1].id \in DOMAIN activeTimers

\* C13: resumeTimer(id) right after pauseTimer(id), on a toast of duration
\* d > 0, leaves a timer for id pending with the full delay d, and no pending
\* timer for id is due earlier than d.
C13_ResumeRestartsFullTimer ==
    [][ (/\ lastOp'.op = "resumeTimer"
         /\ lastOp.op = "pauseTimer"
         /\ lastOp.id = lastOp'.id
         /\ Present(toasts, lastOp'.id)
         /\ ToastWithId(toasts, lastOp'.id).durationMs > 0)
          => LET d == ToastWithId(toasts, lastOp'.id).durationMs
             IN  /\ \E t \in PendingFor(pending', lastOp'.id) : t.remaining = d
                 /\ \A t \in PendingFor(pending', lastOp'.id) : t.remaining >= d ]_vars

\* C14: right after dismissAll() the collection is empty, the timer table is
\* empty and no auto-dismiss timer is pending.
C14_DismissAllClearsEverything ==
    lastOp.op = "dismissAll" =>
        /\ toasts = << >>
        /\ activeTimers = << >>
        /\ pending = {}

\* C15: once the service's destroy hook has run, no auto-dismiss timer is
\* pending.
C15_NoTimerAfterDestroy ==
    destroyed => pending = {}

\* C16: the durationMs of every toast in the collection is 0 or at least
\* TOAST_MINIMUM_DURATION_MS, and never negative.
C16_DurationFloored ==
    \A i \in DOMAIN toasts :
        /\ toasts[i].durationMs >= 0
        /\ toasts[i].durationMs = 0 \/ toasts[i].durationMs >= TOAST_MINIMUM_DURATION_MS

\* C17: with newestOnTop and maximumVisibleToasts >= 1, right after a
\* successful show the first element of visibleToasts() is the toast that
\* show created.
C17_NewestFirstVisible ==
    (/\ lastOp.op = "show"
     /\ lastOp.result = "ok"
     /\ globalConfig.newestOnTop
     /\ globalConfig.maximumVisibleToasts >= 1)
        => /\ visibleToasts(toasts) # << >>
           /\ visibleToasts(toasts)[1].id = lastOp.id

\* a second show has succeeded with newestOnTop set
C17_Witness ==
    /\ lastOp.op = "show"
    /\ lastOp.result = "ok"
    /\ globalConfig.newestOnTop
    /\ globalConfig.maximumVisibleToasts >= 1
    /\ Len(toasts) = 2

\* C18: with maximumVisibleToasts = N >= 1, visibleToasts() holds exactly
\* min(N, size) toasts, the first N of the store when newestOnTop and the last
\* N otherwise, and each of them was created after every toast of the
\* collection that is not visible.
C18_VisibleAreMostRecent ==
    LET N       == globalConfig.maximumVisibleToasts
        visible == visibleToasts(toasts)
        count   == Min(N, Len(toasts))
    IN  N >= 1 =>
          /\ Len(visible) = count
          /\ visible = IF globalConfig.newestOnTop
                       THEN SubSeq(toasts, 1, count)
                       ELSE SubSeq(toasts, Len(toasts) - count + 1, Len(toasts))
          /\ \A i \in DOMAIN visible, j \in DOMAIN toasts :
                (\A k \in DOMAIN visible : visible[k].id # toasts[j].id)
                    => visible[i].id[3] > toasts[j].id[3]

\* more toasts than the cap, the newest at the end of the store
C18_Witness ==
    /\ globalConfig.maximumVisibleToasts = 1
    /\ ~globalConfig.newestOnTop
    /\ Len(toasts) = 2
    /\ Len(visibleToasts(toasts)) = 1

IsSubsequence(sub, seq) ==
    \E f \in [DOMAIN sub -> DOMAIN seq] :
        /\ \A i, j \in DOMAIN sub : i < j => f[i] < f[j]
        /\ \A i \in DOMAIN sub : sub[i] = seq[f[i]]

\* C20: every visible toast is in the filtered view of the position equal
\* to its position field and of no other position; every filtered view is
\* visibleToasts() with some toasts left out; a mounted container lists no
\* toast whose position differs from the container's resolved position.
C20_RoutedToOnePosition ==
    LET visible == visibleToasts(toasts)
        Lists(view, toast) == \E i \in DOMAIN view : view[i] = toast
    IN  /\ \A k \in DOMAIN visible, p \in ToastPositions :
              Lists(filteredToasts({p}, toasts), visible[k]) <=> p = visible[k].position
        /\ \A p \in ToastPositions : IsSubsequence(filteredToasts({p}, toasts), visible)
        /\ \A c \in containers :
              /\ IsSubsequence(filteredToasts(c, toasts), visible)
              /\ \A i \in DOMAIN filteredToasts(c, toasts) :
                    filteredToasts(c, toasts)[i].position = resolvedPosition(c)

\* two visible toasts of different positions, one of them listed by the
\* mounted container
C20_Witness ==
    /\ Len(visibleToasts(toasts)) = 2
    /\ visibleToasts(toasts)[1].position # visibleToasts(toasts)[2].position
    /\ \E c \in containers : Len(filteredToasts(c, toasts)) = 1

\* toastId is one of visibleToasts()
Visible(allToasts, toastId) ==
    \E i \in DOMAIN visibleToasts(allToasts) : visibleToasts(allToasts)[i].id = toastId

\* C21: the window is a view. A successful show puts the toast into the
\* collection, with its timer pending when durationMs > 0, whether or not it
\* is rendered. A toast that is not rendered before or after a step (outside
\* the window, or no container mounted for its position) stays in the
\* collection with its timers as they were when the step is a show, an
\* updateProgress, or an operation or pointer event on another id. When a visible toast is
\* removed and the rest fits the window, every remaining toast is visible.
C21_WindowIsAView ==
    [][ /\ (lastOp'.op = "show" /\ lastOp'.result = "ok") =>
              /\ Present(toasts', lastOp'.id)
              /\ ToastWithId(toasts', lastOp'.id).durationMs > 0 =>
                    \E t \in PendingFor(pending', lastOp'.id) :
                        /\ t.remaining = ToastWithId(toasts', lastOp'.id).durationMs
                        /\ lastOp'.id \in DOMAIN activeTimers'
                        /\ activeTimers'[lastOp'.id] = t.handle
        /\ \A i \in DOMAIN toasts :
              LET toastId == toasts[i].id
              IN  (/\ \/ lastOp'.op \in {"show", "updateProgress"}
                      \/ /\ lastOp'.op \in {"dismiss", "timerFire", "pauseTimer",
                                              "resumeTimer", "mouseenter",
                                              "mouseleave"}
                         /\ lastOp'.id # toastId
                   /\ ~Rendered(toasts, toastId) \/ ~Rendered(toasts', toastId))
                    => /\ Present(toasts', toastId)
                       /\ PendingFor(pending', toastId) = PendingFor(pending, toastId)
                       /\ toastId \in DOMAIN activeTimers' <=> toastId \in DOMAIN activeTimers
        /\ (/\ lastOp'.op \in {"dismiss", "timerFire"}
            /\ Visible(toasts, lastOp'.id)
            /\ Len(toasts') <= globalConfig.maximumVisibleToasts)
              => \A i \in DOMAIN toasts' : Visible(toasts', toasts'[i].id) ]_vars

\* with a window of size 0 a toast was shown and its timer has removed it:
\* it was never visible
C21_Witness ==
    /\ globalConfig.maximumVisibleToasts = 0
    /\ globalConfig.newestOnTop
    /\ lastOp.op = "timerFire"
    /\ lastOp.id \in fired
    /\ removedCount = 1
    /\ toasts = << >>

\* C22: once an auto-dismiss callback has run for an id, the toast is not in
\* the collection and the id is not in the timer table, and a later
\* dismiss(id), pauseTimer(id) or resumeTimer(id) changes neither the
\* collection nor the timer table nor the pending timers.
C22_CallsAfterTimerFiredAreNoOps ==
    [][ /\ \A toastId \in fired' :
              /\ ~Present(toasts', toastId)
              /\ toastId \notin DOMAIN activeTimers'
        /\ (lastOp'.op \in {"dismiss", "pauseTimer", "resumeTimer"} /\ lastOp'.id \in fired)
              => UNCHANGED <<toasts, activeTimers, pending>> ]_vars

\* resumeTimer was called for a toast that its timer had removed, while
\* another toast is in the collection
C22_Witness ==
    /\ lastOp.op = "resumeTimer"
    /\ lastOp.id \in fired
    /\ toasts # << >>

\* C23: resumeTimer(id) never changes the collection; when the toast is in
\* the collection with durationMs = d > 0 it adds one pending timer for id
\* with the full delay d and stores its handle; otherwise it leaves the timer
\* table and the pending timers unchanged.
C23_ResumeSchedulesOnlyForLiveToast ==
    [][ lastOp'.op = "resumeTimer" =>
          /\ toasts' = toasts
          /\ IF Present(toasts, lastOp'.id) /\ ToastWithId(toasts, lastOp'.id).durationMs > 0
             THEN \E t \in pending' \ pending :
                      /\ pending' = pending \cup {t}
                      /\ t.id = lastOp'.id
                      /\ t.remaining = ToastWithId(toasts, lastOp'.id).durationMs
                      /\ activeTimers' = MapSet(activeTimers, lastOp'.id, t.handle)
             ELSE UNCHANGED <<activeTimers, pending>> ]_vars

\* resumeTimer has scheduled a timer for a toast that had none
C23_Witness ==
    /\ lastOp.op = "resumeTimer"
    /\ Present(toasts, lastOp.id)
    /\ ToastWithId(toasts, lastOp.id).durationMs > 0
    /\ Cardinality(PendingFor(pending, lastOp.id)) = 1

C25_UnknownIdUpdateDropped ==
    [][ (/\ lastOp'.op = "updateProgress"
         /\ ~OutOfRange(lastOp'.arg)
         /\ ~Present(toasts, lastOp'.id))
          => /\ lastOp'.result = "ok"
             /\ UNCHANGED <<toasts, activeTimers, pending>> ]_vars

\* updateProgress was called with a valid percent for an id that is not in
\* the collection, which holds a toast with another progress
C25_Witness ==
    /\ lastOp.op = "updateProgress"
    /\ lastOp.result = "ok"
    /\ ~Present(toasts, lastOp.id)
    /\ Len(toasts) = 1
    /\ toasts[1].progressPercent # {lastOp.arg}

\* C26: every toast in the collection has no progressPercent or one within
\* [0,100].
C26_ProgressWithinRange ==
    \A i \in DOMAIN toasts :
        \A percent \in toasts[i].progressPercent : ~OutOfRange(percent)

\* a toast shown without a progress has got one from updateProgress
C26_Witness ==
    \E i \in DOMAIN toasts :
        /\ toasts[i].type = "info"
        /\ toasts[i].progressPercent = {100}

\* C29: show gives the toast the payload's position if it has one and the
\* global position otherwise, one of the six placements, and no step changes
\* the position of a toast that stays in the collection.
C29_PositionFixedAtCreation ==
    [][ /\ (lastOp'.op = "show" /\ lastOp'.result = "ok") =>
              LET given == Payloads[lastOp'.arg].position
                  toast == ToastWithId(toasts', lastOp'.id)
              IN  /\ toast.position \in ToastPositions
                  /\ given = {} => toast.position = globalConfig.position
                  /\ given # {} => toast.position \in given
        /\ \A i \in DOMAIN toasts :
              Present(toasts', toasts[i].id) =>
                  ToastWithId(toasts', toasts[i].id).position = toasts[i].position ]_vars

\* a toast at the global position and a toast at its payload's position,
\* after an accepted updateProgress on one of them
C29_Witness ==
    /\ lastOp.op = "updateProgress"
    /\ lastOp.result = "ok"
    /\ Present(toasts, lastOp.id)
    /\ Len(toasts) = 2
    /\ toasts[1].position # toasts[2].position

\* the defaults the documentation gives for the global configuration
DocumentedDefaults ==
    [ position             |-> "bottom-right",
      theme                |-> "light",
      defaultDurationMs    |-> 5000,
      maximumVisibleToasts |-> 5,
      newestOnTop          |-> TRUE,
      pauseOnHover         |-> TRUE,
      dismissibleByDefault |-> TRUE,
      defaultType          |-> "info",
      animationPreset      |-> "slide" ]

\* C28: every documented field of the merged configuration has the value the
\* application supplied, or its documented default when none was supplied.
C28_UnsuppliedFieldsDefault ==
    \A i \in DOMAIN Scenarios :
        globalConfig = MergeConfig(Scenarios[i].provided) =>
            \A k \in DOMAIN DocumentedDefaults :
                /\ k \in DOMAIN globalConfig
                /\ globalConfig[k] = IF k \in DOMAIN Scenarios[i].provided
                                     THEN Scenarios[i].provided[k]
                                     ELSE DocumentedDefaults[k]

\* C27: info, success, warning and danger(message, options) leave the
\* collection and the timers as show does for the payload made of the
\* options' fields, the message argument and the method's type, and fail as
\* show does; the new toast has the method's type and the message argument
\* even when the options carry a type or a message.
C27_ConvenienceIsShowWithType ==
    [][ lastOp'.op \in ToastTypes =>
          LET options == Options[lastOp'.arg]
              Field(k) == IF k \in DOMAIN options THEN options[k] ELSE {}
              payload == [ message         |-> MessageArg,
                           type            |-> {lastOp'.op},
                           durationMs      |-> Field("durationMs"),
                           progressPercent |-> Field("progressPercent"),
                           position        |-> Field("position") ]
          IN  /\ lastOp'.result = validatePayload(payload)
              /\ IF lastOp'.result = "ok"
                 THEN LET e == show(Engine, payload, lastOp'.id[2])
                      IN  /\ toasts' = e.toasts
                          /\ activeTimers' = e.activeTimers
                          /\ pending' = e.pending
                          /\ ToastWithId(toasts', lastOp'.id).type = lastOp'.op
                          /\ ToastWithId(toasts', lastOp'.id).message = MessageArg
                 ELSE UNCHANGED <<toasts, activeTimers, pending, toastIdCounter>> ]_vars

\* a convenience method other than danger was called with options that carry
\* the type danger and a message of their own
C27_Witness ==
    /\ lastOp.op \in ToastTypes \ {"danger"}
    /\ lastOp.result = "ok"
    /\ "type" \in DOMAIN Options[lastOp.arg]
    /\ "message" \in DOMAIN Options[lastOp.arg]
    /\ Present(toasts, lastOp.id)

\* C30: when the custom object has the callback of the phase being run (enter
\* for runEnterAnimation, leave for runLeaveAnimation), the run invokes exactly
\* that callback, once, calls no preset runner and sets no style, whatever the
\* preset and whether or not reduced motion is active, and it is still pending
\* when the call returns: it completes by the step in which the callback
\* completes, and that step calls and sets nothing more. A custom object
\* without the phase's callback invokes no callback and the run goes on to the
\* preset: it calls a preset runner or sets the opacity.
C30_CustomCallbackReplacesPreset ==
    [][ LET request == animation'.request
            started == animation.status = "idle" /\ animation'.status # "idle"
        IN  /\ (started /\ HasCallback(request.custom, request.phase))
                  => /\ animation'.customCalls = <<request.phase>>
                     /\ animation'.runnerCalls = << >>
                     /\ animation'.opacity = ""
                     /\ animation'.status = "awaiting"
                     /\ animation'.awaiting = "custom"
            /\ (started /\ request.custom # {} /\ ~HasCallback(request.custom, request.phase))
                  => /\ animation'.customCalls = << >>
                     /\ (animation'.runnerCalls # << >>) # (animation'.opacity # "")
            /\ (animation.awaiting = "custom" /\ animation' # animation)
                  => /\ animation'.status = "done"
                     /\ animation'.customCalls = animation.customCalls
                     /\ animation'.runnerCalls = << >>
                     /\ animation'.opacity = "" ]_vars

\* a leave run with the none preset under reduced motion has completed through
\* the custom leave callback
C30_Witness ==
    /\ animation.status = "done"
    /\ animation.prefersReducedMotion
    /\ animation.request.phase = "leave"
    /\ animation.request.preset = {"none"}
    /\ HasCallback(animation.request.custom, "leave")
    /\ animation.customCalls = <<"leave">>

C32_NonePresetSetsOpacity ==
    LET request == animation.request
    IN  ( /\ ~animation.prefersReducedMotion
          /\ request.phase \in {"enter", "leave"}
          /\ request.preset = {"none"}
          /\ ~HasCallback(request.custom, request.phase) )
        => /\ animation.opacity = (IF request.phase = "enter" THEN "1" ELSE "0")
           /\ animation.runnerCalls = << >>
           /\ animation.customCalls = << >>
           /\ animation.status = "done"

\* a leave run with the none preset has made the element transparent
C32_Witness ==
    /\ ~animation.prefersReducedMotion
    /\ animation.request.phase = "leave"
    /\ animation.request.preset = {"none"}
    /\ animation.request.custom = {}
    /\ animation.opacity = "0"

\* C33: getDirectionFromPosition maps top-left and bottom-left to left,
\* top-right and bottom-right to right, top-center to top and bottom-center to
\* bottom; every preset runner call of a run carries the direction of the
\* run's position.
C33_DirectionOfPosition ==
    LET expected ==
            [ positionName \in ToastPositions |->
                CASE positionName \in {"top-left", "bottom-left"}   -> "left"
                  [] positionName \in {"top-right", "bottom-right"} -> "right"
                  [] positionName = "top-center"                    -> "top"
                  [] positionName = "bottom-center"                 -> "bottom" ]
    IN  /\ \A positionName \in ToastPositions :
              getDirectionFromPosition(positionName) = expected[positionName]
        /\ \A i \in DOMAIN animation.runnerCalls :
              animation.runnerCalls[i].direction = expected[animation.request.position]

\* a runner has been called for a toast at bottom-center
C33_Witness ==
    /\ animation.request.position = "bottom-center"
    /\ animation.runnerCalls # << >>
    /\ animation.runnerCalls[1].direction = "bottom"

\* C34: a step that mounts a toast's element (the toast is rendered after the
\* step and was not before) starts an enter run of the orchestrator, and a
\* step that unmounts one (by dismiss, timer expiry, dismissAll or the window
\* shifting) starts a leave run.
C34_MountAndUnmountRunAnimations ==
    [][ /\ (\E toastId \in AllIds :
                ~Rendered(toasts, toastId) /\ Rendered(toasts', toastId))
            => /\ animation' # animation
               /\ animation'.request.phase = "enter"
        /\ (\E toastId \in AllIds :
                Rendered(toasts, toastId) /\ ~Rendered(toasts', toastId))
            => /\ animation' # animation
               /\ animation'.request.phase = "leave" ]_vars

\* C35: with pauseOnHover set, a toast the pointer is over has no pending
\* auto-dismiss timer, whatever hover-enter and hover-leave events came before
\* (hover-enter, hover-leave, hover-enter included), so no timer can remove it
\* while it is hovered.
C35_NoTimerWhileHovered ==
    (globalConfig.pauseOnHover /\ hovered # NoId)
        => /\ PendingFor(pending, hovered) = {}
           /\ hovered \notin DOMAIN activeTimers

\* C36: every key of activeTimers is the id of a toast that is in the
\* collection and has durationMs > 0; the table is a map, so it holds one
\* handle per key, and no handle is stored under two keys.
C36_TimerKeysAreLiveToasts ==
    /\ \A key \in DOMAIN activeTimers :
          \E i \in DOMAIN toasts : toasts[i].id = key /\ toasts[i].durationMs > 0
    /\ \A key, other \in DOMAIN activeTimers :
          activeTimers[key] = activeTimers[other] => key = other

\* of two toasts one has a timer entry and the other, with durationMs 0, has
\* none
C36_Witness ==
    /\ Len(toasts) = 2
    /\ Cardinality(DOMAIN activeTimers) = 1
    /\ \E i \in DOMAIN toasts : toasts[i].durationMs = 0

\* C37: a show call that fails validation returns no id and leaves the
\* collection, the timer table, the pending timers and the id counter exactly
\* as they were: no toast is inserted, no timer is scheduled, no id is consumed.
C37_FailedShowChangesNothing ==
    [][ (lastOp'.op = "show" /\ lastOp'.result # "ok")
          => /\ lastOp'.id = NoId
             /\ UNCHANGED <<toasts, activeTimers, pending, toastIdCounter, issued>> ]_vars

\* a show has failed while a toast with a pending timer was in the collection
C37_Witness ==
    /\ lastOp.op = "show"
    /\ lastOp.result # "ok"
    /\ toastIdCounter = 1
    /\ Len(toasts) = 1
    /\ DOMAIN activeTimers # {}

\* C38: an updateProgress(id, percent) that succeeds on a toast of the
\* collection sets that toast's progressPercent to percent and changes nothing
\* else: the collection keeps its length and order, every other field of that
\* toast (id, createdAt, durationMs, position, type, message) and every other
\* toast are as before, and the timer table and the pending timers are
\* untouched, so the toast's timer is neither restarted nor cancelled.
C38_UpdateProgressChangesOnlyProgress ==
    [][ (/\ lastOp'.op = "updateProgress"
         /\ lastOp'.result = "ok"
         /\ Present(toasts, lastOp'.id))
          => /\ DOMAIN toasts' = DOMAIN toasts
             /\ \A i \in DOMAIN toasts :
                   toasts'[i] = IF toasts[i].id = lastOp'.id
                                THEN [ toasts[i] EXCEPT
                                         !.progressPercent = {lastOp'.arg} ]
                                ELSE toasts[i]
             /\ UNCHANGED <<activeTimers, pending, toastIdCounter>> ]_vars

\* one of two toasts, with its timer pending, has got a new progress
C38_Witness ==
    /\ lastOp.op = "updateProgress"
    /\ lastOp.result = "ok"
    /\ Len(toasts) = 2
    /\ Present(toasts, lastOp.id)
    /\ ToastWithId(toasts, lastOp.id).progressPercent = {lastOp.arg}
    /\ lastOp.id \in DOMAIN activeTimers
    /\ PendingFor(pending, lastOp.id) # {}

\* C39: when an auto-dismiss timer of toast X fires, X and nothing else leaves
\* the collection: the other toasts stay, in the same order and with all their
\* fields, and the timer entries and pending timers of the other toasts are
\* as before.
C39_TimerFireRemovesOnlyItsToast ==
    [][ lastOp'.op = "timerFire" =>
          LET X == lastOp'.id
              Others(toast) == toast.id # X
          IN  /\ toasts' = SelectSeq(toasts, Others)
              /\ ~Present(toasts', X)
              /\ DOMAIN activeTimers' = DOMAIN activeTimers \ {X}
              /\ \A key \in DOMAIN activeTimers' : activeTimers'[key] = activeTimers[key]
              /\ { t \in pending' : t.id # X } = { t \in pending : t.id # X } ]_vars

\* a timer has fired and removed its toast while another toast, with a timer
\* of its own, stayed
C39_Witness ==
    /\ lastOp.op = "timerFire"
    /\ lastOp.id \in fired
    /\ removedCount = 1
    /\ Len(toasts) = 1
    /\ toasts[1].id # lastOp.id
    /\ toasts[1].id \in DOMAIN activeTimers

====
